---- MODULE Spec2Model ----
(***************************************************************************)
(* Marketing dashboard (raj20889/marketing-dashboard).                     *)
(*                                                                         *)
(* Two Streamlit scripts, marketing_dashboard_app.py (the single page      *)
(* prototype) and marketing_dashboard_enhanced.py (four pages).  A script  *)
(* is re-executed from its first line on every widget change, so every     *)
(* action below is "change one widget, then run the whole script again".   *)
(*                                                                         *)
(* Numbers.  Amounts are naturals.  A float quotient a/b is the value      *)
(* Div(a, b): nan, inf, -inf, or the exact fraction num/den (compared by   *)
(* cross multiplication).  A Pearson coefficient is nan or the exact value *)
(* c / sqrt(v).  Rounding of the floats is not modelled.                   *)
(*                                                                         *)
(* Tables.  A table is a sequence of records (rows in file order); a text  *)
(* is a sequence of one-character strings, so that strip() and the         *)
(* case-sensitive == of the state filter are computed, not assumed.        *)
(* The columns impressions and clicks (and ctr, cpc) are left out: they    *)
(* are summed and divided exactly like spend and attributed_revenue.       *)
(***************************************************************************)
EXTENDS Integers, Sequences, FiniteSets, TLC

VARIABLES
    script,             \* "app" (prototype) or "enhanced": which file runs
    marketing,          \* load_data(): marketing_cleaned_raw.csv
    daily_merged,       \* load_data(): daily_merged_business_marketing.csv
    mkt_columns,        \* column names of marketing
    dm_columns,         \* column names of daily_merged
    page,               \* st.sidebar.radio
    date_range,         \* st.sidebar.date_input: <<start_date, end_date>>
    selected_channels,  \* st.sidebar.multiselect
    state_filter,       \* st.sidebar.text_input
    max_lag,            \* st.slider (Diagnostics page)
    mkt,                \* filtered marketing (mkt / mkt_f)
    dm,                 \* filtered daily_merged (dm / dm_f)
    outcome,            \* "ok", "message" (st.error, view halted), "crash" (exception)
    kpis,               \* total_spend, total_attr_rev, overall_roas
    channel_table,      \* prototype: channel performance table
    top_camp,           \* prototype: top campaigns by ROAS
    rev_ts,             \* Overview: daily revenue with rev_7d
    spend_total,        \* Overview: daily total spend with spend_7d
    df_join,            \* Overview: rev_ts left-joined with spend_total
    results,            \* Diagnostics: one row per selected channel
    dfc,                \* Diagnostics: per channel, the (lag, corr) series that is charted
    corr_args,          \* Diagnostics: per channel and lag, the two arrays passed to np.corrcoef
    merged,             \* Cohort: per (date, channel) attribution rows
    cohort              \* Cohort: per channel totals

inputs == <<page, date_range, selected_channels, state_filter, max_lag>>
source == <<script, marketing, daily_merged, mkt_columns, dm_columns>>
views  == <<mkt, dm, outcome, kpis, channel_table, top_camp, rev_ts, spend_total,
            df_join, results, dfc, corr_args, merged, cohort>>
vars   == <<source, inputs, views>>

(***************************************************************************)
(* Bounds of the model and constants of the program                        *)
(***************************************************************************)
SmallDays == 3          \* days covered by the short source tables
NumDays == 8            \* days covered by the long source tables
MaxSeed == 2            \* source tables are generated for the seeds 0..MaxSeed
LagBound == 2           \* the slider is moved to 0..LagBound (besides its default)

TopN == 15              \* .head(15)
Window == 7             \* .rolling(7, min_periods=1)
MinPeriods == 1
SliderMin == 0          \* st.slider(..., 0, 30, 14)
SliderMax == 30
SliderDefault == 14
Sentinel == 999         \* np.nan_to_num(cors, nan=-999)

(***************************************************************************)
(* Generic helpers                                                         *)
(***************************************************************************)
Range(s) == {s[i] : i \in DOMAIN s}

Min(a, b) == IF a <= b THEN a ELSE b
Max(a, b) == IF a >= b THEN a ELSE b

RECURSIVE SumSeq(_)
SumSeq(s) == IF s = <<>> THEN 0 ELSE Head(s) + SumSeq(Tail(s))

\* the elements of a set of integers in ascending order
RECURSIVE SortedSeq(_)
SortedSeq(S) ==
    IF S = {} THEN <<>>
    ELSE LET m == CHOOSE x \in S : \A y \in S : x <= y
         IN <<m>> \o SortedSeq(S \ {m})

\* a sequence with every element computed
Eager(s) == s \o <<>>

Column(t, c) == [i \in DOMAIN t |-> t[i][c]]

(***************************************************************************)
(* Float quotients                                                         *)
(***************************************************************************)
NaN == [kind |-> "nan"]
PosInf == [kind |-> "inf"]
NegInf == [kind |-> "-inf"]
Fin(n, d) == [kind |-> "fin", num |-> n, den |-> d]

\* numpy / pandas float division: x/0 is nan for x = 0 and +-inf otherwise
Div(a, b) ==
    IF b = 0
    THEN IF a = 0 THEN NaN ELSE IF a > 0 THEN PosInf ELSE NegInf
    ELSE IF b > 0 THEN Fin(a, b) ELSE Fin(-a, -b)

IsFin(q) == q.kind = "fin"
IsNaN(q) == q.kind = "nan"
\* comparisons of finite quotients (denominators are positive)
QEq(p, q) == IsFin(p) /\ IsFin(q) /\ p.num * q.den = q.num * p.den
QLt(p, q) == IsFin(p) /\ IsFin(q) /\ p.num * q.den < q.num * p.den
QLe(p, q) == QEq(p, q) \/ QLt(p, q)
\* sum and product of finite quotients; nan propagates
RECURSIVE Gcd(_, _)
Gcd(a, b) == IF b = 0 THEN a ELSE Gcd(b, a % b)
Reduced(n, d) == LET g == Gcd(IF n < 0 THEN -n ELSE n, d) IN Fin(n \div g, d \div g)
QAdd(p, q) == IF IsFin(p) /\ IsFin(q)
              THEN Reduced(p.num * q.den + q.num * p.den, p.den * q.den) ELSE NaN
QMulInt(p, k) == IF IsFin(p) THEN Fin(p.num * k, p.den) ELSE NaN
\* DataFrame.fillna(0) on a float cell: only nan is replaced
FillNa0(q) == IF IsNaN(q) THEN Fin(0, 1) ELSE q

(***************************************************************************)
(* Texts                                                                   *)
(***************************************************************************)
IsSpace(c) == c \in {" ", "\t", "\n"}

\* str.strip(): leading and trailing whitespace removed
RECURSIVE LStrip(_)
LStrip(s) == IF s # <<>> /\ IsSpace(Head(s)) THEN LStrip(Tail(s)) ELSE s
RECURSIVE RStrip(_)
RStrip(s) == IF s # <<>> /\ IsSpace(s[Len(s)])
             THEN RStrip(SubSeq(s, 1, Len(s) - 1)) ELSE s
Strip(s) == RStrip(LStrip(s))

NY == <<"N", "Y">>
ny == <<"n", "y">>
CA == <<"C", "A">>
\* what the user may type into the state box
StateInputs == { <<>>, <<" ">>, <<" ", "N", "Y", " ">>, ny }

(***************************************************************************)
(* Source tables                                                           *)
(***************************************************************************)
\* sorted(marketing['channel'].unique()) for the generated tables
Channels == <<"search", "social">>
ChannelIndex(ch) == CHOOSE k \in DOMAIN Channels : Channels[k] = ch

MarketingColumns == {"date", "channel", "campaign", "state", "spend", "attributed_revenue"}
BusinessColumns == {"date", "total_revenue", "gross_profit", "new_customers", "orders"}

MRow(d, ch, ca, st, sp, rv) ==
    [date |-> d, channel |-> ch, campaign |-> ca, state |-> st,
     spend |-> sp, attributed_revenue |-> rv]

StateOf(d, k) == IF (d + k) % 3 = 0 THEN NY ELSE IF d % 4 = 2 THEN ny ELSE CA

\* The rows of day d, channel k: one row of campaign d and a second row in
\* another state, of the same campaign on odd days and of campaign 100 + d on
\* even days.
DayRows(d, k, seed) ==
    <<MRow(d, Channels[k], d, StateOf(d, k), (d * k + seed) % 3, (d + 2 * k + seed * d) % 4),
      MRow(d, Channels[k], IF d % 2 = 1 THEN d ELSE 100 + d, StateOf(d, k + 1),
           (d + seed) % 2, (d + k + seed) % 3)>>

\* A marketing file of nd days; day `gap` (if in 1..nd) has no row at all.
RECURSIVE GenMarketing(_, _, _)
GenMarketing(nd, seed, gap) ==
    IF nd = 0 THEN <<>>
    ELSE GenMarketing(nd - 1, seed, gap)
         \o (IF nd = gap THEN <<>>
             ELSE DayRows(nd, 1, seed) \o DayRows(nd, 2, seed))

BRow(d, seed) ==
    [date |-> d, total_revenue |-> (3 * d + seed) % 5, gross_profit |-> (d + seed) % 3,
     new_customers |-> (2 * d + seed) % 4, orders |-> (d * d + seed) % 3]

\* A business file of nd days, one row per date; day `gap` has no row.
RECURSIVE GenBusiness(_, _, _)
GenBusiness(nd, seed, gap) ==
    IF nd = 0 THEN <<>>
    ELSE GenBusiness(nd - 1, seed, gap)
         \o (IF nd = gap THEN <<>> ELSE <<BRow(nd, seed)>>)

(***************************************************************************)
(* Filter Stage                                                            *)
(***************************************************************************)
\* (mutation) the window's first day excluded
InWindowOpenStart(r, d0, d1) == r.date > d0 /\ r.date <= d1

InWindow(r, d0, d1) == r.date >= d0 /\ r.date <= d1

\* marketing[(date >= start) & (date <= end) & channel.isin(selected)]
MaskMarketing(table, d0, d1, sel) ==
    SelectSeq(table, LAMBDA r : InWindow(r, d0, d1) /\ r.channel \in sel)

\* if state_filter.strip(): mkt = mkt[mkt['state'] == state_filter.strip()]
StateMatch(r, sf) == r.state = Strip(sf)
FilterState(table, sf) ==
    IF Strip(sf) # <<>> THEN SelectSeq(table, LAMBDA r : StateMatch(r, sf)) ELSE table

\* the table the masks are applied to: the cached frame returned by load_data()
FilterSource == marketing

FilterMarketing(table, d0, d1, sel, sf) == FilterState(MaskMarketing(table, d0, d1, sel), sf)

\* daily_merged[(date >= start) & (date <= end)]
FilterBusiness(table, d0, d1) == SelectSeq(table, LAMBDA r : InWindow(r, d0, d1))

(***************************************************************************)
(* groupby: keys in sorted order, one summed row per key                   *)
(***************************************************************************)
SortedChannels(S) == SelectSeq(Channels, LAMBDA c : c \in S)

RECURSIVE Flatten(_)
Flatten(ss) == IF ss = <<>> THEN <<>> ELSE Head(ss) \o Flatten(Tail(ss))

\* df[c].sum()
SumCol(t, c) == SumSeq(Column(t, c))

DatesOf(t) == SortedSeq({r.date : r \in Range(t)})

\* a stable descending sort: row i goes behind every row that is greater, and
\* behind every earlier row that is not smaller, by the quotient in column key
SortDesc(s, key) ==
    LET Gt(a, b) == QLt(b[key], a[key])
        pos(i) == 1 + Cardinality({j \in DOMAIN s :
                        Gt(s[j], s[i]) \/ (~Gt(s[i], s[j]) /\ j < i)})
    IN [p \in DOMAIN s |-> s[CHOOSE i \in DOMAIN s : pos(i) = p]]

HeadN(s, n) == SubSeq(s, 1, Min(n, Len(s)))

(***************************************************************************)
(* Prototype: channel performance table and top campaigns                  *)
(***************************************************************************)
\* attributed_revenue / spend, element-wise on float columns
Roas(rev, spend) == Div(rev, spend)

ChannelTable(t) ==
    LET keys == SortedChannels({r.channel : r \in Range(t)})
        row(ch) == LET sp == SumCol(SelectSeq(t, LAMBDA r : r.channel = ch), "spend")
                       rv == SumCol(SelectSeq(t, LAMBDA r : r.channel = ch), "attributed_revenue")
                   IN [channel |-> ch, spend |-> sp, attributed_revenue |-> rv,
                       roas |-> Roas(rv, sp)]
    IN [i \in DOMAIN keys |-> row(keys[i])]

Camp(t) ==
    LET chans == SortedChannels({r.channel : r \in Range(t)})
        camps(ch) == SortedSeq({r.campaign : r \in {x \in Range(t) : x.channel = ch}})
        row(ch, ca) ==
            LET sp == SumCol(SelectSeq(t, LAMBDA r : r.channel = ch /\ r.campaign = ca), "spend")
                rv == SumCol(SelectSeq(t, LAMBDA r : r.channel = ch /\ r.campaign = ca), "attributed_revenue")
            IN [channel |-> ch, campaign |-> ca, spend |-> sp,
                attributed_revenue |-> rv, roas |-> Roas(rv, sp)]
    IN Flatten([i \in DOMAIN chans |->
                  [j \in DOMAIN camps(chans[i]) |-> row(chans[i], camps(chans[i])[j])]])

\* (mutation) dropna without the replace of the infinities
DropNaNOnly(t) == SelectSeq(t, LAMBDA r : ~IsNaN(r.roas))

\* .replace([np.inf, -np.inf], np.nan).dropna(subset=['roas'])
DropNonFinite(t) == SelectSeq(t, LAMBDA r : IsFin(r.roas))

\* .sort_values('roas', ascending=False): rows of equal roas keep their order
SortByRoas(t) == SortDesc(t, "roas")

TopCamp(t) == HeadN(SortByRoas(DropNonFinite(Camp(t))), TopN)

(***************************************************************************)
(* Overview: KPIs and rolling series                                       *)
(***************************************************************************)
\* (mutation) zero instead of nan when nothing was spent
CalcKpisZero(t) ==
    LET s == SumSeq(Column(t, "spend"))
        r == SumSeq(Column(t, "attributed_revenue"))
    IN [total_spend |-> s, total_attr_rev |-> r,
        overall_roas |-> IF s > 0 THEN Div(r, s) ELSE Fin(0, 1)]

\* calc_kpis(df) / prototype lines 45-50
CalcKpis(t) ==
    LET s == SumSeq(Column(t, "spend"))
        r == SumSeq(Column(t, "attributed_revenue"))
    IN [total_spend |-> s, total_attr_rev |-> r,
        overall_roas |-> IF s > 0 THEN Div(r, s) ELSE NaN]

\* what st.metric shows for Overall ROAS
RoasLabel(k) == IF IsNaN(k.overall_roas) THEN "N/A" ELSE "number"

\* mkt.groupby(['date','channel']).spend.sum().reset_index()
TsSpend(t) ==
    LET ds == DatesOf(t)
        chans(d) == SortedChannels({r.channel : r \in {x \in Range(t) : x.date = d}})
        row(d, ch) == [date |-> d, channel |-> ch,
                       spend |-> SumCol(SelectSeq(t, LAMBDA r : r.date = d /\ r.channel = ch), "spend")]
    IN Flatten([i \in DOMAIN ds |->
                  [j \in DOMAIN chans(ds[i]) |-> row(ds[i], chans(ds[i])[j])]])

\* Series.rolling(7, min_periods=1).mean(): a window of rows, not of dates
RollingMean(vals) ==
    [i \in DOMAIN vals |->
        LET lo == Max(1, i - Window + 1)
        IN IF i - lo + 1 >= MinPeriods
           THEN Div(SumSeq(SubSeq(vals, lo, i)), i - lo + 1) ELSE NaN]

\* dm[['date','total_revenue']].groupby('date').sum().reset_index() with rev_7d
RevTs(b) ==
    LET ds == DatesOf(b)
        tot == [i \in DOMAIN ds |-> SumCol(SelectSeq(b, LAMBDA r : r.date = ds[i]), "total_revenue")]
        avg == RollingMean(tot)
    IN [i \in DOMAIN ds |-> [date |-> ds[i], total_revenue |-> tot[i], rev_7d |-> avg[i]]]

\* ts_spend.groupby('date').spend.sum().reset_index() with spend_7d
SpendTotal(ts) ==
    LET ds == DatesOf(ts)
        tot == [i \in DOMAIN ds |-> SumCol(SelectSeq(ts, LAMBDA r : r.date = ds[i]), "spend")]
        avg == RollingMean(tot)
    IN [i \in DOMAIN ds |-> [date |-> ds[i], total_spend |-> tot[i], spend_7d |-> avg[i]]]

\* rev_ts.merge(spend_total, on='date', how='left').fillna(0)
DfJoin(rt, st) ==
    [i \in DOMAIN rt |->
        LET hit == SelectSeq(st, LAMBDA r : r.date = rt[i].date)
        IN [date |-> rt[i].date, total_revenue |-> rt[i].total_revenue,
            rev_7d |-> FillNa0(rt[i].rev_7d),
            total_spend |-> IF hit = <<>> THEN 0 ELSE hit[1].total_spend,
            spend_7d |-> IF hit = <<>> THEN Fin(0, 1) ELSE FillNa0(hit[1].spend_7d)]]

(***************************************************************************)
(* Diagnostics: lag scan                                                   *)
(***************************************************************************)
\* order_cols = [c for c in dm.columns if 'order' in c.lower() ...]
OrderCols(cols) == cols \cap {"orders"}

\* orders = dm[['date']].copy(); orders['orders'] = dm[order_cols[0]].values, or 0
Orders(b, cols) ==
    [i \in DOMAIN b |-> [date |-> b[i].date,
                         orders |-> IF OrderCols(cols) # {} THEN b[i].orders ELSE 0]]

\* pd.date_range(start_date, end_date): day i of the window is d0 + i - 1
WindowLen(d0, d1) == d1 - d0 + 1

\* mkt[mkt.channel == ch].groupby('date').spend.sum().reindex(date_range, fill_value=0)
Srs(t, ch, d0, d1) ==
    [i \in 1..WindowLen(d0, d1) |->
        SumCol(SelectSeq(t, LAMBDA r : r.channel = ch /\ r.date = d0 + i - 1), "spend")]

\* orders.set_index('date').reindex(date_range, fill_value=0)['orders']
Ords(o, d0, d1) ==
    [i \in 1..WindowLen(d0, d1) |->
        SumCol(SelectSeq(o, LAMBDA r : r.date = d0 + i - 1), "orders")]

\* (mutation) the shift taken in the other direction
ShiftBackward(s, k) == [i \in DOMAIN s |-> IF (i + k) \in DOMAIN s THEN s[i + k] ELSE 0]

\* Series.shift(k).fillna(0): the value at position i is the one of position i - k
Shift(s, k) == [i \in DOMAIN s |-> IF (i - k) \in DOMAIN s THEN s[i - k] ELSE 0]

\* lags = list(range(-max_lag, max_lag + 1))
Lags(L) == [i \in 1..(2 * L + 1) |-> i - L - 1]

\* the two arrays of the np.corrcoef call of one lag
CorrArgs(srs, ords, lag) ==
    IF lag < 0 THEN <<Shift(srs, -lag), ords>> ELSE <<srs, Shift(ords, lag)>>

\* A coefficient: nan, or the real number c / sqrt(v) with v > 0.
Coef(c, v) == [kind |-> "corr", c |-> c, v |-> v]
IsCoef(r) == r.kind = "corr"

\* np.corrcoef(x, y)[0,1]: cov / sqrt(var_x * var_y), nan when a variance is zero
Corrcoef(x, y) ==
    LET n == Len(x)
        sx == SumSeq(x)
        sy == SumSeq(y)
        sxy == SumSeq([i \in DOMAIN x |-> x[i] * y[i]])
        sxx == SumSeq([i \in DOMAIN x |-> x[i] * x[i]])
        syy == SumSeq([i \in DOMAIN y |-> y[i] * y[i]])
        vx == n * sxx - sx * sx
        vy == n * syy - sy * sy
    IN IF vx = 0 \/ vy = 0 THEN NaN ELSE Coef(n * sxy - sx * sy, vx * vy)

\* p1/q1 < p2/q2 for naturals with q1, q2 > 0, by continued fractions (no products)
RECURSIVE FracLt(_, _, _, _)
FracLt(p1, q1, p2, q2) ==
    LET a1 == p1 \div q1
        a2 == p2 \div q2
        r1 == p1 % q1
        r2 == p2 % q2
    IN IF a1 # a2 THEN a1 < a2
       ELSE IF r2 = 0 THEN FALSE
       ELSE IF r1 = 0 THEN TRUE
       ELSE FracLt(q2, r2, q1, r1)

\* a < b for coefficients: compare sign(c) * c^2 / v
CoefLt(a, b) ==
    IF a.c < 0 /\ b.c >= 0 THEN TRUE
    ELSE IF a.c >= 0 /\ b.c < 0 THEN FALSE
    ELSE IF a.c >= 0 THEN FracLt(a.c * a.c, a.v, b.c * b.c, b.v)
    ELSE FracLt(b.c * b.c, b.v, a.c * a.c, a.v)
CoefEq(a, b) == ~CoefLt(a, b) /\ ~CoefLt(b, a)

\* (mutation) np.nan_to_num(cors) with its default, nan -> 0.0
NanToZero(cors) == [i \in DOMAIN cors |-> IF IsNaN(cors[i]) THEN Coef(0, 1) ELSE cors[i]]

\* np.nan_to_num(cors, nan=-999)
NanToNum(cors) == [i \in DOMAIN cors |-> IF IsNaN(cors[i]) THEN Coef(-Sentinel, 1) ELSE cors[i]]

\* np.nanargmax / np.argmax: the first index holding the maximum
ArgMax(a) ==
    CHOOSE i \in DOMAIN a :
        /\ \A j \in DOMAIN a : ~CoefLt(a[i], a[j])
        /\ \A j \in DOMAIN a : j < i => CoefLt(a[j], a[i])

\* np.nanmax(cors): the maximum of the non-nan entries, nan when all are nan
NanMax(cors) ==
    LET def == {i \in DOMAIN cors : ~IsNaN(cors[i])}
    IN IF def = {} THEN NaN
       ELSE cors[CHOOSE i \in def : \A j \in def : ~CoefLt(cors[i], cors[j])]

\* lines 119-120: best_lag, and the row appended to results
Report(ch, lags, args, cors) ==
    [row |-> [channel |-> ch,
              best_lag_days |-> lags[ArgMax(Eager(NanToNum(cors)))],
              max_corr |-> NanMax(cors)],
     dfc |-> [i \in DOMAIN lags |-> [lag |-> lags[i], corr |-> cors[i]]],
     args |-> args]

\* lines 112-117: `for lag in lags`, one coefficient per lag
Correlate(ch, lags, args) ==
    Report(ch, lags, args, Eager([i \in DOMAIN lags |-> Corrcoef(args[i][1], args[i][2])]))

ScanLags(ch, srs, ords, lags) ==
    Correlate(ch, lags, Eager([i \in DOMAIN lags |->
                                 <<Eager(CorrArgs(srs, ords, lags[i])[1]),
                                   Eager(CorrArgs(srs, ords, lags[i])[2])>>]))

\* one iteration of `for ch in selected_channels`
LagScan(t, o, ch, d0, d1, L) ==
    ScanLags(ch, Eager(Srs(t, ch, d0, d1)), Eager(Ords(o, d0, d1)), Lags(L))

(***************************************************************************)
(* Cohort: proportional attribution                                        *)
(***************************************************************************)
\* mkt.groupby(['date','channel']).attributed_revenue.sum().reset_index()
RevByCh(t) ==
    LET ds == DatesOf(t)
        chans(d) == SortedChannels({r.channel : r \in {x \in Range(t) : x.date = d}})
        row(d, ch) == [date |-> d, channel |-> ch,
                       attributed_revenue |->
                           SumCol(SelectSeq(t, LAMBDA r : r.date = d /\ r.channel = ch), "attributed_revenue")]
    IN Flatten([i \in DOMAIN ds |->
                  [j \in DOMAIN chans(ds[i]) |-> row(ds[i], chans(ds[i])[j])]])

\* (mutation) the total taken over the whole window instead of per date
TotalRevAllDates(rbc, d) == SumSeq(Column(rbc, "attributed_revenue"))

\* rev_by_ch.groupby('date').attributed_revenue.sum(), looked up for one date
TotalRevByDate(rbc, d) == SumCol(SelectSeq(rbc, LAMBDA r : r.date = d), "attributed_revenue")

\* rev_share = attributed_revenue / total_rev
RevShare(rev, total) == Div(rev, total)

\* merged: rev_by_ch + total_rev + rev_share, left-joined with dm[['date','new_customers']],
\* .fillna(0), then new_customers_attrib = rev_share * new_customers
Merged(t, b) ==
    LET rbc == RevByCh(t)
    IN [i \in DOMAIN rbc |->
          LET total == TotalRevByDate(rbc, rbc[i].date)
              share == FillNa0(RevShare(rbc[i].attributed_revenue, total))
              cust == SelectSeq(b, LAMBDA r : r.date = rbc[i].date)
              nc == IF cust = <<>> THEN 0 ELSE cust[1].new_customers
          IN [date |-> rbc[i].date, channel |-> rbc[i].channel,
              attributed_revenue |-> rbc[i].attributed_revenue, total_rev |-> total,
              rev_share |-> share, new_customers |-> nc,
              new_customers_attrib |-> QMulInt(share, nc)]]

RECURSIVE QSum(_)
QSum(qs) == IF qs = <<>> THEN Fin(0, 1) ELSE QAdd(Head(qs), QSum(Tail(qs)))

\* merged.groupby('channel').agg(sum).sort_values(..., ascending=False)
Cohort(m) ==
    LET keys == SortedChannels({r.channel : r \in Range(m)})
        rows == [i \in DOMAIN keys |->
                   [channel |-> keys[i],
                    total_new_customers_attr |->
                        QSum(Column(SelectSeq(m, LAMBDA r : r.channel = keys[i]),
                                    "new_customers_attrib"))]]
    IN SortDesc(rows, "total_new_customers_attr")

(***************************************************************************)
(* One execution of a script, top to bottom                                *)
(***************************************************************************)
Pages == {"Overview", "Diagnostics & Lag Analysis", "Cohort & Acquisition", "Export & Report"}

\* nothing rendered yet
Blank ==
    [mkt |-> <<>>, dm |-> <<>>, outcome |-> "ok", kpis |-> <<>>,
     channel_table |-> <<>>, top_camp |-> <<>>, rev_ts |-> <<>>, spend_total |-> <<>>,
     df_join |-> <<>>, results |-> <<>>, dfc |-> <<>>, corr_args |-> <<>>,
     merged |-> <<>>, cohort |-> <<>>]

\* the filter lines of both scripts; mkt['state'] raises KeyError without the column
Filtered(mc, d0, d1, sel, sf) ==
    IF Strip(sf) # <<>> /\ "state" \notin mc
    THEN [Blank EXCEPT !.outcome = "crash"]
    ELSE [Blank EXCEPT !.mkt = FilterMarketing(FilterSource, d0, d1, sel, sf),
                       !.dm = FilterBusiness(daily_merged, d0, d1)]

\* total_business_rev / total_gross_profit: the guarded sums
GuardedSum(b, cols, c) == IF c \in cols THEN Fin(SumSeq(Column(b, c)), 1) ELSE NaN

Kpis(f, dc) ==
    <<[total_spend |-> CalcKpis(f.mkt).total_spend,
       total_attr_rev |-> CalcKpis(f.mkt).total_attr_rev,
       overall_roas |-> CalcKpis(f.mkt).overall_roas,
       roas_label |-> RoasLabel(CalcKpis(f.mkt)),
       total_business_rev |-> GuardedSum(f.dm, dc, "total_revenue"),
       total_gross_profit |-> GuardedSum(f.dm, dc, "gross_profit")]>>

\* marketing_dashboard_enhanced.py, page "Overview" (lines 61-89)
Overview(f, mc, dc) ==
    IF ~({"spend", "attributed_revenue"} \subseteq mc)
    THEN [f EXCEPT !.outcome = "crash"]
    ELSE IF "total_revenue" \notin dc
    THEN [f EXCEPT !.kpis = Kpis(f, dc), !.outcome = "crash"]
    ELSE [f EXCEPT !.kpis = Kpis(f, dc),
                   !.rev_ts = RevTs(f.dm),
                   !.spend_total = SpendTotal(TsSpend(f.mkt)),
                   !.df_join = DfJoin(RevTs(f.dm), SpendTotal(TsSpend(f.mkt)))]

\* page "Diagnostics & Lag Analysis" (lines 91-126)
Diagnostics(f, mc, dc, d0, d1, sel, L) ==
    LET chans == SortedChannels(sel)
        Collect(scan) ==
            [f EXCEPT !.results = [i \in DOMAIN chans |-> scan[i].row],
                      !.dfc = [i \in DOMAIN chans |-> scan[i].dfc],
                      !.corr_args = [i \in DOMAIN chans |-> scan[i].args]]
    IN IF chans # <<>> /\ "spend" \notin mc
       THEN [f EXCEPT !.outcome = "crash"]
       ELSE Collect(Eager([i \in DOMAIN chans |->
                             LagScan(f.mkt, Eager(Orders(f.dm, dc)), chans[i], d0, d1, L)]))

\* page "Cohort & Acquisition" (lines 128-148)
CohortPage(f, mc, dc) ==
    IF "new_customers" \notin dc
    THEN [f EXCEPT !.outcome = "message"]
    ELSE IF "attributed_revenue" \notin mc
    THEN [f EXCEPT !.outcome = "crash"]
    ELSE [f EXCEPT !.merged = Merged(f.mkt, f.dm),
                   !.cohort = Cohort(Merged(f.mkt, f.dm))]

\* page "Export & Report" (lines 150-169), no button pressed
ExportPage(f) == f

\* marketing_dashboard_app.py (lines 44-99)
Prototype(f, mc, dc) ==
    IF ~({"spend", "attributed_revenue"} \subseteq mc)
    THEN [f EXCEPT !.outcome = "crash"]
    ELSE IF "total_revenue" \notin dc
    THEN [f EXCEPT !.kpis = Kpis(f, dc), !.outcome = "crash"]
    ELSE [f EXCEPT !.kpis = Kpis(f, dc),
                   !.rev_ts = [i \in DOMAIN RevTs(f.dm) |->
                                 [date |-> RevTs(f.dm)[i].date,
                                  total_revenue |-> RevTs(f.dm)[i].total_revenue]],
                   !.channel_table = ChannelTable(f.mkt),
                   !.top_camp = TopCamp(f.mkt)]

\* the part of a script below its filter lines
Render(f, scr, mc, dc, pg, dr, sel, L) ==
    IF f.outcome = "crash" THEN f
    ELSE IF scr = "app" THEN Prototype(f, mc, dc)
    ELSE IF pg = "Overview" THEN Overview(f, mc, dc)
    ELSE IF pg = "Diagnostics & Lag Analysis"
         THEN Diagnostics(f, mc, dc, dr[1], dr[2], sel, L)
    ELSE IF pg = "Cohort & Acquisition" THEN CohortPage(f, mc, dc)
    ELSE ExportPage(f)

Run(scr, mc, dc, pg, dr, sel, sf, L) ==
    Render(Filtered(mc, dr[1], dr[2], sel, sf), scr, mc, dc, pg, dr, sel, L)

(***************************************************************************)
(* Initial states: the files that are loaded, and the widgets' defaults    *)
(***************************************************************************)
\* min_date / max_date and the channel options of the sidebar
MinDate == CHOOSE d \in {r.date : r \in Range(marketing)} :
               \A e \in {r.date : r \in Range(marketing)} : d <= e
MaxDate == CHOOSE d \in {r.date : r \in Range(marketing)} :
               \A e \in {r.date : r \in Range(marketing)} : d >= e
ChannelOptions == {r.channel : r \in Range(marketing)}

\* well-formed short files, every seed and every missing day
ShortFiles ==
    /\ \E seed \in 0..MaxSeed :
          /\ marketing = GenMarketing(SmallDays, seed, IF seed = 1 THEN 2 ELSE 0)
          /\ daily_merged = GenBusiness(SmallDays, seed, seed)
    /\ mkt_columns = MarketingColumns
    /\ dm_columns = BusinessColumns

\* well-formed long files (more days than the rolling window, more campaigns than TopN)
LongFiles ==
    /\ marketing = GenMarketing(NumDays, 1, 0)
    /\ daily_merged = GenBusiness(NumDays, 1, NumDays - 2)
    /\ mkt_columns = MarketingColumns
    /\ dm_columns = BusinessColumns

\* files that lack one column
ColumnVariants ==
    {<<MarketingColumns \ {c}, BusinessColumns>> : c \in {"state", "spend"}}
    \cup {<<MarketingColumns, BusinessColumns \ {c}>> :
             c \in {"total_revenue", "new_customers", "orders"}}

ShortColumnFiles ==
    /\ marketing = GenMarketing(SmallDays, 0, 0)
    /\ daily_merged = GenBusiness(SmallDays, 0, 0)
    /\ \E cv \in ColumnVariants : mkt_columns = cv[1] /\ dm_columns = cv[2]

Views(v) ==
    /\ mkt = v.mkt /\ dm = v.dm /\ outcome = v.outcome /\ kpis = v.kpis
    /\ channel_table = v.channel_table /\ top_camp = v.top_camp
    /\ rev_ts = v.rev_ts /\ spend_total = v.spend_total /\ df_join = v.df_join
    /\ results = v.results /\ dfc = v.dfc /\ corr_args = v.corr_args
    /\ merged = v.merged /\ cohort = v.cohort

Init ==
    /\ script \in {"app", "enhanced"}
    /\ (ShortFiles \/ LongFiles \/ ShortColumnFiles)
    /\ page = "Overview"
    /\ date_range = <<MinDate, MaxDate>>
    /\ selected_channels = ChannelOptions
    /\ state_filter = <<>>
    /\ max_lag = SliderDefault
    /\ \E v \in {Run(script, mkt_columns, dm_columns, page, date_range,
                     selected_channels, state_filter, max_lag)} : Views(v)

(***************************************************************************)
(* Actions: one widget changes, the script runs again                      *)
(***************************************************************************)
\* (mutation) the masks applied to the view of the previous run
RerunOnPreviousView ==
    \E v \in {Run(script, mkt_columns, dm_columns, page', date_range',
                  selected_channels', state_filter', max_lag')} :
       /\ mkt' = SelectSeq(v.mkt, LAMBDA r : r \in Range(mkt))
       /\ dm' = v.dm /\ outcome' = v.outcome /\ kpis' = v.kpis
       /\ channel_table' = v.channel_table /\ top_camp' = v.top_camp
       /\ rev_ts' = v.rev_ts /\ spend_total' = v.spend_total /\ df_join' = v.df_join
       /\ results' = v.results /\ dfc' = v.dfc /\ corr_args' = v.corr_args
       /\ merged' = v.merged /\ cohort' = v.cohort
       /\ UNCHANGED source

Rerun ==
    \E v \in {Run(script, mkt_columns, dm_columns, page', date_range',
                  selected_channels', state_filter', max_lag')} :
       /\ mkt' = v.mkt /\ dm' = v.dm /\ outcome' = v.outcome /\ kpis' = v.kpis
       /\ channel_table' = v.channel_table /\ top_camp' = v.top_camp
       /\ rev_ts' = v.rev_ts /\ spend_total' = v.spend_total /\ df_join' = v.df_join
       /\ results' = v.results /\ dfc' = v.dfc /\ corr_args' = v.corr_args
       /\ merged' = v.merged /\ cohort' = v.cohort
       /\ UNCHANGED source

SetDateRange ==
    /\ \E d0 \in MinDate..MaxDate, d1 \in MinDate..MaxDate :
          /\ d0 <= d1
          /\ <<d0, d1>> # date_range
          /\ date_range' = <<d0, d1>>
    /\ UNCHANGED <<page, selected_channels, state_filter, max_lag>>
    /\ Rerun

SetChannels ==
    /\ \E sel \in SUBSET ChannelOptions :
          /\ sel # selected_channels
          /\ selected_channels' = sel
    /\ UNCHANGED <<page, date_range, state_filter, max_lag>>
    /\ Rerun

SetStateFilter ==
    /\ \E sf \in StateInputs :
          /\ sf # state_filter
          /\ state_filter' = sf
    /\ UNCHANGED <<page, date_range, selected_channels, max_lag>>
    /\ Rerun

\* the slider exists on the Diagnostics page only: it starts from its default there
SelectPage ==
    /\ script = "enhanced"
    /\ \E p \in Pages :
          /\ p # page
          /\ page' = p
    /\ max_lag' = SliderDefault
    /\ UNCHANGED <<date_range, selected_channels, state_filter>>
    /\ Rerun

SetMaxLag ==
    /\ script = "enhanced"
    /\ page = "Diagnostics & Lag Analysis"
    /\ \E L \in SliderMin..Min(SliderMax, LagBound) :
          /\ L # max_lag
          /\ max_lag' = L
    /\ UNCHANGED <<page, date_range, selected_channels, state_filter>>
    /\ Rerun

Next == SetDateRange \/ SetChannels \/ SetStateFilter \/ SelectPage \/ SetMaxLag

Spec == Init /\ [][Next]_vars

(***************************************************************************)
(* Vocabulary of the properties, stated on the state alone                 *)
(***************************************************************************)
Count(t, r) == Cardinality({i \in DOMAIN t : t[i] = r})

\* t is s without its leading and trailing whitespace
IsTrimOf(t, s) ==
    \E i \in 0..Len(s), j \in 0..Len(s) :
        /\ i + j <= Len(s)
        /\ t = SubSeq(s, i + 1, Len(s) - j)
        /\ \A k \in 1..i : IsSpace(s[k])
        /\ \A k \in (Len(s) - j + 1)..Len(s) : IsSpace(s[k])
        /\ t # <<>> => ~IsSpace(t[1]) /\ ~IsSpace(t[Len(t)])
Trimmed(s) ==
    CHOOSE t \in {SubSeq(s, a, b) : a \in 1..(Len(s) + 1), b \in 0..Len(s)} : IsTrimOf(t, s)

\* the filter lines ran to their end (mkt['state'] exists whenever it is read)
FilterCompleted == Trimmed(state_filter) = <<>> \/ "state" \in mkt_columns

\* the loaded files have the columns of the data model
WellFormed == mkt_columns = MarketingColumns /\ dm_columns = BusinessColumns

InDates(r) == date_range[1] <= r.date /\ r.date <= date_range[2]
Kept(r) ==
    /\ InDates(r)
    /\ r.channel \in selected_channels
    /\ Trimmed(state_filter) # <<>> => r.state = Trimmed(state_filter)

\* sums over the filtered marketing table, by set comprehension
SumOver(t, c, I) ==
    LET RECURSIVE acc(_)
        acc(J) == IF J = {} THEN 0
                  ELSE LET i == CHOOSE x \in J : TRUE IN t[i][c] + acc(J \ {i})
    IN acc(I)
RowsOfChannel(ch) == {i \in DOMAIN mkt : mkt[i].channel = ch}
RowsOfPair(ch, ca) == {i \in DOMAIN mkt : mkt[i].channel = ch /\ mkt[i].campaign = ca}
RowsOfDay(d, ch) == {i \in DOMAIN mkt : mkt[i].date = d /\ mkt[i].channel = ch}
RowsOfDate(d) == {i \in DOMAIN mkt : mkt[i].date = d}
PairsOfMkt == {<<r.channel, r.campaign>> : r \in Range(mkt)}
PairSpend(pr) == SumOver(mkt, "spend", RowsOfPair(pr[1], pr[2]))
PairRev(pr) == SumOver(mkt, "attributed_revenue", RowsOfPair(pr[1], pr[2]))

\* the prototype rendered its tables
AppShown == script = "app" /\ outcome = "ok"
PageShown(p) == script = "enhanced" /\ page = p /\ outcome = "ok"

(***************************************************************************)
(* C1. The Filter Stage keeps a marketing row iff its date lies in the     *)
(* window (both ends included), its channel is selected and, when the      *)
(* state text is non-empty after trimming, its state equals the trimmed    *)
(* text; it keeps a business row iff its date lies in the window.          *)
(***************************************************************************)
C1_FilterKeepsExactly ==
    FilterCompleted =>
        /\ Range(mkt) \subseteq Range(marketing)
        /\ \A r \in Range(marketing) :
              Count(mkt, r) = IF Kept(r) THEN Count(marketing, r) ELSE 0
        /\ Range(dm) \subseteq Range(daily_merged)
        /\ \A r \in Range(daily_merged) :
              Count(dm, r) = IF InDates(r) THEN Count(daily_merged, r) ELSE 0

\* a padded state text that matches some rows and not their lower-case twins,
\* rows kept on both ends of the window, a channel deselected
C1_Witness ==
    /\ state_filter = <<" ", "N", "Y", " ">>
    /\ date_range[1] < date_range[2]
    /\ selected_channels = {"social"}
    /\ \E r \in Range(mkt) : r.date = date_range[1]
    /\ \E r \in Range(mkt) : r.date = date_range[2]
    /\ \E r \in Range(marketing) : InDates(r) /\ r.channel = "social" /\ r.state = ny
    /\ \E r \in Range(marketing) : InDates(r) /\ r.channel = "search" /\ r.state = NY
    /\ Len(dm) = WindowLen(date_range[1], date_range[2])

(***************************************************************************)
(* C2. Channel performance table: a channel whose total spend is zero has  *)
(* roas nan, whatever its revenue; any other channel has roas exactly      *)
(* total attributed_revenue / total spend.                                 *)
(***************************************************************************)
C2_ZeroSpendRoasIsNaN ==
    AppShown =>
        \A i \in DOMAIN channel_table :
            LET ch == channel_table[i].channel
                sp == SumOver(mkt, "spend", RowsOfChannel(ch))
                rv == SumOver(mkt, "attributed_revenue", RowsOfChannel(ch))
            IN IF sp = 0 THEN IsNaN(channel_table[i].roas)
               ELSE QEq(channel_table[i].roas, Fin(rv, sp))

(***************************************************************************)
(* C3. Top campaigns: at most 15 rows, one per (channel, campaign), none   *)
(* with zero spend or a non-finite roas, sorted by roas descending; every  *)
(* pair left out was discarded for zero spend / non-finite roas or has a   *)
(* roas not above any row's.                                               *)
(***************************************************************************)
C3_TopCampaigns ==
    AppShown =>
        /\ Len(top_camp) <= 15
        /\ \A i, j \in DOMAIN top_camp :
              (top_camp[i].channel = top_camp[j].channel
               /\ top_camp[i].campaign = top_camp[j].campaign) => i = j
        /\ \A i \in DOMAIN top_camp :
              LET pr == <<top_camp[i].channel, top_camp[i].campaign>>
              IN /\ pr \in PairsOfMkt
                 /\ PairSpend(pr) # 0
                 /\ top_camp[i].spend = PairSpend(pr)
                 /\ IsFin(top_camp[i].roas)
                 /\ QEq(top_camp[i].roas, Fin(PairRev(pr), PairSpend(pr)))
        /\ \A i, j \in DOMAIN top_camp :
              i < j => QLe(top_camp[j].roas, top_camp[i].roas)
        /\ \A pr \in PairsOfMkt :
              (\A i \in DOMAIN top_camp :
                    <<top_camp[i].channel, top_camp[i].campaign>> # pr)
              => \/ PairSpend(pr) = 0
                 \/ \A i \in DOMAIN top_camp :
                       QLe(Fin(PairRev(pr), PairSpend(pr)), top_camp[i].roas)

\* the ranking is full, a finite pair is cut off, a zero-spend pair is
\* discarded, and two ranked rows tie
C3_Witness ==
    /\ AppShown
    /\ Len(top_camp) = 15
    /\ \E pr \in PairsOfMkt :
          /\ PairSpend(pr) # 0
          /\ \A i \in DOMAIN top_camp : <<top_camp[i].channel, top_camp[i].campaign>> # pr
    /\ \E pr \in PairsOfMkt : PairSpend(pr) = 0 /\ PairRev(pr) > 0
    /\ \E i, j \in DOMAIN top_camp : i < j /\ QEq(top_camp[i].roas, top_camp[j].roas)
    /\ \E i \in DOMAIN top_camp : Cardinality(RowsOfPair(top_camp[i].channel,
                                                           top_camp[i].campaign)) > 1

(***************************************************************************)
(* C4. Attribution: on every date whose total attributed revenue is not    *)
(* zero, the rev_share values of the channels active that date sum to 1    *)
(* and their new_customers_attrib values sum to the date's new_customers   *)
(* of the business table.                                                  *)
(***************************************************************************)
MergedOfDate(d) == SelectSeq(merged, LAMBDA r : r.date = d)
DateRevenue(d) == SumOver(mkt, "attributed_revenue", RowsOfDate(d))
BusinessOfDate(d) == SelectSeq(dm, LAMBDA r : r.date = d)

C4_SharesSumToOne ==
    PageShown("Cohort & Acquisition") =>
        \A d \in {r.date : r \in Range(mkt)} :
            DateRevenue(d) # 0 =>
                /\ {r.channel : r \in Range(MergedOfDate(d))}
                     = {mkt[i].channel : i \in RowsOfDate(d)}
                /\ Len(MergedOfDate(d)) = Cardinality({mkt[i].channel : i \in RowsOfDate(d)})
                /\ QEq(QSum(Column(MergedOfDate(d), "rev_share")), Fin(1, 1))
                /\ BusinessOfDate(d) # <<>> =>
                      QEq(QSum(Column(MergedOfDate(d), "new_customers_attrib")),
                          Fin(BusinessOfDate(d)[1].new_customers, 1))

\* a date with two channels holding unequal, non-zero shares and customers to
\* attribute, next to a date of zero revenue, under a state filter
C4_Witness ==
    /\ PageShown("Cohort & Acquisition")
    /\ \E i, j \in DOMAIN merged :
          /\ merged[i].date = merged[j].date
          /\ merged[i].channel # merged[j].channel
          /\ QLt(Fin(0, 1), merged[i].rev_share)
          /\ QLt(merged[i].rev_share, merged[j].rev_share)
          /\ merged[i].new_customers > 1
    /\ \E i \in DOMAIN merged : merged[i].total_rev = 0
    /\ Len(mkt) < Len(MaskMarketing(marketing, date_range[1], date_range[2], selected_channels))

(***************************************************************************)
(* C5. Rolling averages of daily revenue and of daily total spend: the     *)
(* first value is the first day's raw value, the value at index i is the   *)
(* mean of the min(7, i+1) most recent days, and from the 7th day on it is *)
(* the mean of exactly 7 consecutive calendar days, also when calendar     *)
(* days of the window have no row.                                         *)
(***************************************************************************)
\* s: rows in date order, raw: the raw column, avg: the rolling column
RollingAsClaimed(s, raw, avg) ==
    /\ s # <<>> => QEq(s[1][avg], Fin(s[1][raw], 1))
    /\ \A i \in DOMAIN s :
          LET n == IF i < 7 THEN i ELSE 7
          IN /\ QEq(s[i][avg], Fin(SumOver(s, raw, (i - n + 1)..i), n))
             /\ i >= 7 => \A k \in 0..6 : s[i - k].date = s[i].date - k

C5_RollingSevenCalendarDays ==
    PageShown("Overview") =>
        /\ RollingAsClaimed(rev_ts, "total_revenue", "rev_7d")
        /\ RollingAsClaimed(spend_total, "total_spend", "spend_7d")

(***************************************************************************)
(* C6. A column that a view expects is missing from the loaded tables:     *)
(* the view ends with a visible message and halted, never with an          *)
(* unhandled exception.                                                    *)
(***************************************************************************)
\* the columns the view on display reads
ExpectedColumns ==
    [mkt |-> {"date", "channel"}
             \cup (IF Trimmed(state_filter) # <<>> THEN {"state"} ELSE {})
             \cup (IF script = "app" THEN {"spend", "attributed_revenue", "campaign"}
                   ELSE IF page = "Overview" THEN {"spend", "attributed_revenue"}
                   ELSE IF page = "Diagnostics & Lag Analysis" /\ selected_channels # {}
                        THEN {"spend"}
                   ELSE IF page = "Cohort & Acquisition" THEN {"attributed_revenue"}
                   ELSE {}),
     dm  |-> {"date"}
             \cup (IF script = "app" \/ page = "Overview" THEN {"total_revenue"}
                   ELSE IF page = "Cohort & Acquisition" THEN {"new_customers"}
                   ELSE {})]

ColumnMissing ==
    ~(ExpectedColumns.mkt \subseteq mkt_columns /\ ExpectedColumns.dm \subseteq dm_columns)

C6_MissingColumnIsReported ==
    /\ outcome # "crash"
    /\ ColumnMissing => outcome = "message"

(***************************************************************************)
(* C7. An empty filtered marketing table: every view completes without an  *)
(* error, sums are zero, ratios are nan (overall ROAS shows N/A), ranking  *)
(* tables are empty.  Stated for loaded files that have the columns of the *)
(* data model.                                                             *)
(***************************************************************************)
C7_EmptyViewPropagates ==
    (WellFormed /\ mkt = <<>>) =>
        /\ outcome = "ok"
        /\ (script = "app" \/ page = "Overview") =>
              /\ kpis # <<>>
              /\ kpis[1].total_spend = 0
              /\ kpis[1].total_attr_rev = 0
              /\ IsNaN(kpis[1].overall_roas)
              /\ kpis[1].roas_label = "N/A"
        /\ script = "app" => channel_table = <<>> /\ top_camp = <<>>
        /\ PageShown("Overview") =>
              /\ spend_total = <<>>
              /\ Len(df_join) = Len(rev_ts)
              /\ \A i \in DOMAIN df_join :
                    df_join[i].total_spend = 0 /\ QEq(df_join[i].spend_7d, Fin(0, 1))
        /\ PageShown("Diagnostics & Lag Analysis") =>
              /\ Len(results) = Cardinality(selected_channels)
              /\ \A i \in DOMAIN results :
                    /\ IsNaN(results[i].max_corr)
                    /\ \A k \in DOMAIN dfc[i] : IsNaN(dfc[i][k].corr)
                    /\ \A k \in DOMAIN corr_args[i] :
                          \A t \in DOMAIN corr_args[i][k][1] : corr_args[i][k][1][t] = 0
        /\ PageShown("Cohort & Acquisition") => merged = <<>> /\ cohort = <<>>

\* empty because no row has the state typed in, with channels selected and
\* rows in the window, on the lag page
C7_Witness ==
    /\ WellFormed
    /\ mkt = <<>>
    /\ MaskMarketing(marketing, date_range[1], date_range[2], selected_channels) # <<>>
    /\ PageShown("Diagnostics & Lag Analysis")
    /\ Len(results) = 2
    /\ date_range[1] < date_range[2]
    /\ max_lag = 1

(***************************************************************************)
(* C8. Across filter changes and page selections the loaded source tables  *)
(* are never modified, and the filtered view and every derived table shown *)
(* after a run depend on the source tables and the current inputs only.    *)
(***************************************************************************)
Shown ==
    [mkt |-> mkt, dm |-> dm, outcome |-> outcome, kpis |-> kpis,
     channel_table |-> channel_table, top_camp |-> top_camp, rev_ts |-> rev_ts,
     spend_total |-> spend_total, df_join |-> df_join, results |-> results,
     dfc |-> dfc, corr_args |-> corr_args, merged |-> merged, cohort |-> cohort]

\* what the current inputs select from the source tables
SelectedNow ==
    [Blank EXCEPT !.mkt = SelectSeq(marketing, Kept),
                  !.dm = SelectSeq(daily_merged, InDates)]

ViewsFollowFromInputs ==
    IF FilterCompleted
    THEN Shown = Render(SelectedNow, script, mkt_columns, dm_columns, page,
                        date_range, selected_channels, max_lag)
    ELSE Shown = [Blank EXCEPT !.outcome = "crash"]

C8_SourceFrozenViewsPure ==
    /\ []ViewsFollowFromInputs
    /\ [][UNCHANGED source]_vars

\* a view computed from the whole source table again, after other runs
C8_Witness ==
    /\ outcome = "ok"
    /\ mkt = marketing
    /\ page = "Cohort & Acquisition"
    /\ state_filter = <<" ">>
    /\ merged # <<>>

(***************************************************************************)
(* C9. Lag diagnostic: the lags are scanned as -L, ..., +L; a nan          *)
(* coefficient is never the best while some lag has a defined one; the     *)
(* reported lag is the first one, in scan order, whose coefficient equals  *)
(* the largest defined one; it lies in [-L, L]; max_corr is the            *)
(* coefficient of the reported lag, also when every coefficient is nan.    *)
(***************************************************************************)
SameCoef(a, b) == (IsNaN(a) /\ IsNaN(b)) \/ (IsCoef(a) /\ IsCoef(b) /\ CoefEq(a, b))

C9_BestLag ==
    PageShown("Diagnostics & Lag Analysis") =>
        /\ Len(results) = Len(dfc)
        /\ \A i \in DOMAIN results :
              LET c == dfc[i]
                  b == results[i].best_lag_days + max_lag + 1
                  def == {k \in DOMAIN c : IsCoef(c[k].corr)}
              IN /\ Len(c) = 2 * max_lag + 1
                 /\ \A k \in DOMAIN c : c[k].lag = k - max_lag - 1
                 /\ results[i].best_lag_days \in (-max_lag)..max_lag
                 /\ SameCoef(results[i].max_corr, c[b].corr)
                 /\ def # {} =>
                       /\ b \in def
                       /\ \A k \in def : ~CoefLt(c[b].corr, c[k].corr)
                       /\ \A k \in def : k < b => CoefLt(c[k].corr, c[b].corr)

\* nan before the best lag, a later lag tying with the best, and a lag that
\* is negative
C9_Witness ==
    /\ PageShown("Diagnostics & Lag Analysis")
    /\ \E i \in DOMAIN results :
          LET c == dfc[i]
              b == results[i].best_lag_days + max_lag + 1
          IN /\ \E k \in DOMAIN c : k < b /\ IsNaN(c[k].corr)
             /\ \E k \in DOMAIN c : k > b /\ SameCoef(c[k].corr, c[b].corr)
             /\ IsCoef(c[b].corr)
    /\ \E i \in DOMAIN results : results[i].best_lag_days < 0
    /\ \E i \in DOMAIN results : IsNaN(results[i].max_corr)

(***************************************************************************)
(* C10. Lag diagnostic: both series cover every calendar day of the window *)
(* with missing days as zero; for a lag l < 0 the spend series is shifted  *)
(* and the orders series is not, for l >= 0 the orders series is shifted   *)
(* forward by l days and the spend series is not; positions emptied by a   *)
(* shift hold zero.                                                        *)
(***************************************************************************)
DayOf(t) == date_range[1] + t - 1
InWindowDay(d) == date_range[1] <= d /\ d <= date_range[2]
SpendOn(ch, d) == IF InWindowDay(d) THEN SumOver(mkt, "spend", RowsOfDay(d, ch)) ELSE 0
OrdersOn(d) ==
    IF InWindowDay(d) /\ "orders" \in dm_columns
    THEN SumOver(dm, "orders", {i \in DOMAIN dm : dm[i].date = d}) ELSE 0

\* dir = 1: a negative lag places the spend of day t + |l| at day t (as claimed);
\* dir = -1: it places the spend of day t - |l| at day t
LagPairs(dir) ==
    PageShown("Diagnostics & Lag Analysis") =>
        \A i \in DOMAIN results :
            /\ Len(corr_args[i]) = 2 * max_lag + 1
            /\ \A k \in DOMAIN corr_args[i] :
                  LET l == k - max_lag - 1
                      x == corr_args[i][k][1]
                      y == corr_args[i][k][2]
                      n == WindowLen(date_range[1], date_range[2])
                  IN /\ Len(x) = n /\ Len(y) = n
                     /\ \A t \in 1..n :
                           IF l < 0
                           THEN /\ x[t] = SpendOn(results[i].channel, DayOf(t) + dir * (-l))
                                /\ y[t] = OrdersOn(DayOf(t))
                           ELSE /\ x[t] = SpendOn(results[i].channel, DayOf(t))
                                /\ y[t] = OrdersOn(DayOf(t) - l)

\* the claim as stated: spend shifted backward for a negative lag
C10_SpendShiftedBackward == LagPairs(1)

\* amended: spend shifted forward by |l| days for a negative lag
C10_SpendShiftedForward == LagPairs(-1)

\* a negative lag whose shifted spend differs from the spend itself, days
\* without a marketing row and a day without a business row in the window
C10_Witness ==
    /\ PageShown("Diagnostics & Lag Analysis")
    /\ max_lag = 2
    /\ \E i \in DOMAIN results :
          /\ corr_args[i][1][1] # corr_args[i][3][1]
          /\ corr_args[i][2][1] # corr_args[i][3][1]
          /\ corr_args[i][5][2] # corr_args[i][3][2]
          /\ \E t \in DOMAIN corr_args[i][3][1] :
                corr_args[i][3][1][t] = 0 /\ RowsOfDay(DayOf(t), results[i].channel) = {}
    /\ \E d \in date_range[1]..date_range[2] : \A r \in Range(dm) : r.date # d
    /\ Len(dm) > 2

====
